---- MODULE Spec2Model ----
(***************************************************************************)
(* A model of MTFS: the Merkle tree built from a directory (merkleNode.cpp *)
(* and merkleTree.cpp).  Strings are sequences of one-character strings,   *)
(* so that the concatenation a directory hashes is the concatenation the   *)
(* code builds.  The file system is a finite map from paths to entries.    *)
(***************************************************************************)
EXTENDS Integers, Sequences, FiniteSets, TLC

VARIABLES
    fs,            \* the file system: path -> entry
    directory,     \* the path given to the last build_tree call
    root,          \* MerkleTree::root (a node id, or Null)
    file_objects,  \* MerkleTree::file_objects: content hash -> node id
    nodes,         \* MerkleTree::nodes: the node ids in creation order
    CHUNK_SIZE,    \* MerkleTree::CHUNK_SIZE
    heap,          \* the live MerkleNode objects: node id -> fields
    last,          \* the last operation and what it returned
    tampers,       \* stored hashes overwritten since the last successful build
    main_root,     \* main: root, the node the last successful build returned
    tree_built,    \* main: tree_built
    pc             \* main: "loop" in the command loop, "exit" after return

vars == <<fs, directory, root, file_objects, nodes, CHUNK_SIZE, heap, last, tampers,
          main_root, tree_built, pc>>

\* The locals of main, other than directory.
handler == <<main_root, tree_built, pc>>

tree == <<root, file_objects, nodes, heap>>

-----------------------------------------------------------------------------
(* Bounds of the model.                                                    *)

\* Nesting depth of the file system below its top directory.
MaxDepth == 2

\* Entries of the file system, the top directory not counted.
MaxEntries == 3

\* Entries that are not a readable file or an enumerable directory.
MaxSpecial == 1

\* Stored hashes overwritten between two builds.
MaxTampers == 1

-----------------------------------------------------------------------------
(* Strings and the digest.                                                 *)

\* SHA-256 as a collision-free digest: the digest of a string is the string
\* between two marks that occur in no name and no file content, so that two
\* digests are equal exactly when their inputs are equal.  A digest is
\* itself a string and may be part of a longer one.
sha256(data) == <<"[">> \o data \o <<"]">>

\* The digest of the empty input.
EmptyDigest == sha256(<<>>)

\* File names.  ':' and ';' are legal in file names, and so are the
\* characters of a digest.
NameA == <<"p", ":">> \o EmptyDigest \o <<";", "q">>
NameB == <<"q", ":">> \o EmptyDigest \o <<";", "p">>
NameS == <<"p", ":">> \o EmptyDigest \o <<";", "q", ":">> \o EmptyDigest \o <<";", "p">>

Names == {NameA, NameB, NameS}

\* The name of the top directory.
RootName == NameB

\* File contents: the empty file, and a file holding the bytes of a name.
Contents == {<<>>, NameA}

\* The byte value of a character, as std::string compares them.  The marks
\* of a digest stand for hexadecimal digits.
Code(c) ==
    CASE c = "[" -> 48
      [] c = "]" -> 49
      [] c = ":" -> 58
      [] c = ";" -> 59
      [] c = "p" -> 112
      [] c = "q" -> 113

\* operator< of std::string: lexicographic by byte value.
RECURSIVE StrLess(_, _)
StrLess(a, b) ==
    IF b = <<>> THEN FALSE
    ELSE IF a = <<>> THEN TRUE
    ELSE IF Code(Head(a)) # Code(Head(b)) THEN Code(Head(a)) < Code(Head(b))
    ELSE StrLess(Tail(a), Tail(b))

\* A set of distinct names in ascending order.
RECURSIVE Ascending(_)
Ascending(S) ==
    IF S = {} THEN <<>>
    ELSE LET m == CHOOSE x \in S : \A y \in S \ {x} : StrLess(x, y)
         IN  <<m>> \o Ascending(S \ {m})

\* All names in ascending order.
NamesAscending == Ascending(Names)

\* std::sort of the names S: ascending.
SortNames(S) == SelectSeq(NamesAscending, LAMBDA n : n \in S)

-----------------------------------------------------------------------------
(* The file system.                                                        *)

Paths == UNION {[1..d -> Names] : d \in 0..MaxDepth}

Parent(p) == SubSeq(p, 1, Len(p) - 1)

\* fs::path::filename()
FileName(p) == IF p = <<>> THEN RootName ELSE p[Len(p)]

\* An entry of the file system: its kind, whether it opens (a file) or can
\* be enumerated (a directory), the bytes it holds, and how many of them a
\* reader gets before the read fails (all of them when no read fails).
NoEntry == [kind |-> "none", ok |-> TRUE, content |-> <<>>, readable |-> 0]
File(c) == [kind |-> "file", ok |-> TRUE, content |-> c, readable |-> Len(c)]
\* a regular file that cannot be opened for reading
FileNoOpen == [kind |-> "file", ok |-> FALSE, content |-> <<>>, readable |-> 0]
\* a regular file that opens and whose read fails after n bytes
FileReadFails(c, n) == [kind |-> "file", ok |-> TRUE, content |-> c, readable |-> n]
Dir == [kind |-> "dir", ok |-> TRUE, content |-> <<>>, readable |-> 0]
\* a directory that cannot be enumerated
DirNoEnum == [kind |-> "dir", ok |-> FALSE, content |-> <<>>, readable |-> 0]
\* an entry that exists and is neither a regular file nor a directory
Other == [kind |-> "other", ok |-> TRUE, content |-> <<>>, readable |-> 0]
\* a directory entry whose target does not exist (a broken symbolic link)
Dangling == [kind |-> "dangling", ok |-> TRUE, content |-> <<>>, readable |-> 0]

Entries == {File(c) : c \in Contents} \cup {FileNoOpen, Dir, DirNoEnum, Other, Dangling}

Special(e) == e.kind \in {"other", "dangling"} \/ ~e.ok \/ e.readable < Len(e.content)

Present(f) == {p \in Paths : p # <<>> /\ f[p].kind # "none"}

\* fs::exists, fs::is_regular_file, fs::is_directory
Exists(e) == e.kind \notin {"none", "dangling"}
IsRegularFile(e) == e.kind = "file"
IsDirectory(e) == e.kind = "dir"

\* The orders in which a directory may report its entries.
Orders == {o \in [1..Cardinality(Names) -> Names] : \A i, j \in DOMAIN o : o[i] = o[j] => i = j}

\* fs::directory_iterator(p): the entries of p, in the order ord reports them.
RECURSIVE Filter(_, _, _)
Filter(f, p, ord) ==
    IF ord = <<>> THEN <<>>
    ELSE IF f[Append(p, Head(ord))].kind # "none"
         THEN <<Head(ord)>> \o Filter(f, p, Tail(ord))
         ELSE Filter(f, p, Tail(ord))

Enumerate(f, p, ord) == IF Len(p) >= MaxDepth THEN <<>> ELSE Filter(f, p, ord)

-----------------------------------------------------------------------------
(* MerkleNode.                                                             *)

\* The null shared_ptr.  Node ids are positive for the nodes of a completed
\* build (the position of the node in `nodes`) and negative for the nodes
\* that a failed build leaves in `nodes`.
Null == 0

\* An empty std::map.
EmptyMap == [x \in {} |-> Null]

\* m[k] = v of std::map: inserts the key or overwrites its value.
\* An assignment m[k] = v that leaves an entry that is already there.
MapPut_KeepFirst(m, k, v) == [x \in DOMAIN m \cup {k} |-> IF x \in DOMAIN m THEN m[x] ELSE v]

MapPut(m, k, v) == [x \in DOMAIN m \cup {k} |-> IF x = k THEN v ELSE m[x]]

\* MerkleNode::MerkleNode
MerkleNode(name, isFile) ==
    [name |-> name, isFile |-> isFile, fileSize |-> 0, cachedDepth |-> -1,
     hash |-> <<>>, contentHash |-> <<>>, chunkHashes |-> <<>>, children |-> EmptyMap]

\* MerkleNode::addChild on node id of heap h, which is not a file node, with
\* a child that is not null.
addChild(h, id, child) ==
    [h EXCEPT ![id].children = MapPut(@, h[child].name, child),
              ![id].cachedDepth = -1]

\* MerkleNode::addChild with its two checks: on a file node, or with a null
\* child, it throws before it assigns anything.
addChildOrThrow(h, id, child) ==
    IF h[id].isFile THEN [threw |-> TRUE, heap |-> h]
    ELSE IF child = Null THEN [threw |-> TRUE, heap |-> h]
    ELSE [threw |-> FALSE, heap |-> addChild(h, id, child)]

\* MerkleNode::calculateHash: stores the hash in the node, and in every node
\* below it, and returns it.  The result is the heap and the hash.
RECURSIVE calculateHash(_, _)
RECURSIVE CombineChildren(_, _, _, _)

\* The loop of calculateHash over the sorted names: acc is the heap so far
\* and the string combined so far.
CombineChildren(acc, id, sortedNames, i) ==
    IF i > Len(sortedNames) THEN acc
    ELSE LET childName == sortedNames[i]
             r == calculateHash(acc.heap, acc.heap[id].children[childName])
         IN  CombineChildren(
                 [heap |-> r.heap,
                  combined |-> acc.combined \o childName \o <<":">> \o r.hash \o <<";">>],
                 id, sortedNames, i + 1)

\* calculateHash with a directory without children hashed as the empty
\* string instead of its name.
calculateHash_EmptyDirNameless(h, id) ==
    IF h[id].isFile
    THEN [heap |-> [h EXCEPT ![id].hash = h[id].contentHash], hash |-> h[id].contentHash]
    ELSE IF DOMAIN h[id].children = {}
    THEN [heap |-> [h EXCEPT ![id].hash = sha256(<<>>)], hash |-> sha256(<<>>)]
    ELSE LET sortedNames == SortNames(DOMAIN h[id].children)
             r == CombineChildren([heap |-> h, combined |-> <<>>], id, sortedNames, 1)
         IN  [heap |-> [r.heap EXCEPT ![id].hash = sha256(r.combined)],
              hash |-> sha256(r.combined)]

\* The names of the children of node id in the order the children were
\* created.
RECURSIVE CreationOrder(_, _, _)
CreationOrder(h, id, S) ==
    IF S = {} THEN <<>>
    ELSE LET m == CHOOSE x \in S :
                      \A y \in S : h[id].children[x] <= h[id].children[y]
         IN  <<m>> \o CreationOrder(h, id, S \ {m})

\* calculateHash without the sort: the children are hashed in the order in
\* which they were added.
calculateHash_Unsorted(h, id) ==
    IF h[id].isFile
    THEN [heap |-> [h EXCEPT ![id].hash = h[id].contentHash], hash |-> h[id].contentHash]
    ELSE IF DOMAIN h[id].children = {}
    THEN [heap |-> [h EXCEPT ![id].hash = sha256(h[id].name)], hash |-> sha256(h[id].name)]
    ELSE LET sortedNames == CreationOrder(h, id, DOMAIN h[id].children)
             r == CombineChildren([heap |-> h, combined |-> <<>>], id, sortedNames, 1)
         IN  [heap |-> [r.heap EXCEPT ![id].hash = sha256(r.combined)],
              hash |-> sha256(r.combined)]

\* The concatenation of the names alone.
RECURSIVE JoinNames(_)
JoinNames(names) ==
    IF names = <<>> THEN <<>> ELSE Head(names) \o <<";">> \o JoinNames(Tail(names))

\* calculateHash with a directory hashed from the names of its children
\* alone, the hashes of the children left out.
calculateHash_NamesOnly(h, id) ==
    IF h[id].isFile
    THEN [heap |-> [h EXCEPT ![id].hash = h[id].contentHash], hash |-> h[id].contentHash]
    ELSE IF DOMAIN h[id].children = {}
    THEN [heap |-> [h EXCEPT ![id].hash = sha256(h[id].name)], hash |-> sha256(h[id].name)]
    ELSE LET sortedNames == SortNames(DOMAIN h[id].children)
             r == CombineChildren([heap |-> h, combined |-> <<>>], id, sortedNames, 1)
         IN  [heap |-> [r.heap EXCEPT ![id].hash = sha256(JoinNames(sortedNames))],
              hash |-> sha256(JoinNames(sortedNames))]

calculateHash(h, id) ==
    IF h[id].isFile
    THEN [heap |-> [h EXCEPT ![id].hash = h[id].contentHash], hash |-> h[id].contentHash]
    ELSE IF DOMAIN h[id].children = {}
    THEN [heap |-> [h EXCEPT ![id].hash = sha256(h[id].name)], hash |-> sha256(h[id].name)]
    ELSE LET sortedNames == SortNames(DOMAIN h[id].children)
             r == CombineChildren([heap |-> h, combined |-> <<>>], id, sortedNames, 1)
         IN  [heap |-> [r.heap EXCEPT ![id].hash = sha256(r.combined)],
              hash |-> sha256(r.combined)]

\* The nodes of the subtree of node id.
RECURSIVE Subtree(_, _)
Subtree(h, id) ==
    IF id = Null THEN {}
    ELSE {id} \cup UNION {Subtree(h, h[id].children[n]) : n \in DOMAIN h[id].children}

-----------------------------------------------------------------------------
(* MerkleTree: building.                                                   *)

Min(a, b) == IF a < b THEN a ELSE b

RECURSIVE ReadChunks(_, _)
RECURSIVE ReadChunks_TrailingEmpty(_, _)

\* The loop taking one more, empty, chunk after a last chunk that is full.
ReadChunks_TrailingEmpty(content, chunk) ==
    IF content = <<>> THEN <<>>
    ELSE LET bytesRead == Min(chunk, Len(content))
             rest == SubSeq(content, bytesRead + 1, Len(content))
         IN  <<sha256(SubSeq(content, 1, bytesRead))>>
                 \o (IF rest = <<>> /\ bytesRead = chunk THEN <<sha256(<<>>)>>
                     ELSE ReadChunks_TrailingEmpty(rest, chunk))

\* The loop of hash_file_content: the digest of every window of chunk bytes
\* that holds at least one byte, in file order.
ReadChunks(content, chunk) ==
    IF content = <<>> THEN <<>>
    ELSE LET bytesRead == Min(chunk, Len(content))
         IN  <<sha256(SubSeq(content, 1, bytesRead))>>
                 \o ReadChunks(SubSeq(content, bytesRead + 1, Len(content)), chunk)

\* hash_file_content with the content hash taken over the chunk digests in
\* place of the bytes read.
hash_file_content_OverChunkHashes(e, chunk) ==
    LET entireContent == SubSeq(e.content, 1, e.readable)
        chunkHashes == ReadChunks(entireContent, chunk)
    IN  [contentHash |-> sha256([i \in 1..Len(chunkHashes) |-> "p"]),
         fileSize |-> Len(e.content),
         chunkHashes |-> chunkHashes]

\* hash_file_content reading in windows of the default chunk size, whatever
\* chunk size is configured.
hash_file_content_DefaultChunk(e, chunk) ==
    LET entireContent == SubSeq(e.content, 1, e.readable)
    IN  [contentHash |-> sha256(entireContent), fileSize |-> Len(e.content),
         chunkHashes |-> ReadChunks(entireContent, 1024 * 1024)]

\* MerkleTree::hash_file_content on a file that opens: the digest of the
\* bytes the loop read, the size that tellg reported at the end of the file
\* before the loop, and the digests of the chunks read.  A read that fails
\* sets the stream's error bits and throws nothing: the loop ends as at the
\* end of the file.
hash_file_content(e, chunk) ==
    LET entireContent == SubSeq(e.content, 1, e.readable)
    IN  [contentHash |-> sha256(entireContent), fileSize |-> Len(e.content),
         chunkHashes |-> ReadChunks(entireContent, chunk)]

\* MerkleTree::build_node.  st holds heap, nodes and file_objects as the
\* build has made them so far; the result holds them as this call leaves
\* them, whether it threw, and the node it returned.
RECURSIVE build_node(_, _, _, _, _)
RECURSIVE BuildEntries(_, _, _, _, _, _, _)

\* The loop of build_node over the entries of directory p: an entry whose
\* build throws is skipped, what its build did to nodes and file_objects
\* stays.
\* The loop with an entry whose build throws ending it: the entries after it
\* are not built.
BuildEntries_StopAtFailure(f, p, ord, chunk, st, id, entries) ==
    IF entries = <<>> THEN st
    ELSE LET r == build_node(f, Append(p, Head(entries)), ord, chunk, st)
         IN  IF r.threw THEN r.st
             ELSE BuildEntries(f, p, ord, chunk,
                               [r.st EXCEPT !.heap = addChild(@, id, r.node)],
                               id, Tail(entries))

BuildEntries(f, p, ord, chunk, st, id, entries) ==
    IF entries = <<>> THEN st
    ELSE LET r == build_node(f, Append(p, Head(entries)), ord, chunk, st)
             st1 == IF r.threw THEN r.st
                    ELSE [r.st EXCEPT !.heap = addChild(@, id, r.node)]
         IN  BuildEntries(f, p, ord, chunk, st1, id, Tail(entries))

build_node(f, p, ord, chunk, st) ==
    IF ~Exists(f[p]) THEN [threw |-> TRUE, st |-> st, node |-> Null]
    ELSE LET isFile == IsRegularFile(f[p])
             id == Len(st.nodes) + 1
             st1 == [st EXCEPT !.heap = (id :> MerkleNode(FileName(p), isFile)) @@ @,
                               !.nodes = Append(@, id)]
         IN  IF isFile
             THEN IF ~f[p].ok THEN [threw |-> TRUE, st |-> st1, node |-> Null]
                  ELSE LET r == hash_file_content(f[p], chunk)
                       IN  [threw |-> FALSE, node |-> id,
                            st |-> [st1 EXCEPT
                                      !.heap[id].contentHash = r.contentHash,
                                      !.heap[id].fileSize = r.fileSize,
                                      !.heap[id].chunkHashes = r.chunkHashes,
                                      !.file_objects = MapPut(@, r.contentHash, id)]]
             ELSE IF IsDirectory(f[p])
             THEN IF ~f[p].ok THEN [threw |-> TRUE, st |-> st1, node |-> Null]
                  ELSE [threw |-> FALSE, node |-> id,
                        st |-> BuildEntries(f, p, ord, chunk, st1, id, Enumerate(f, p, ord))]
             ELSE [threw |-> FALSE, st |-> st1, node |-> id]

\* The nodes a build that threw leaves in `nodes` get negative ids, so that
\* they are not taken for nodes of the earlier tree that root still holds.
OrphanHeap(h) == [i \in {-j : j \in DOMAIN h} |-> h[-i]]
OrphanNodes(ns) == [i \in DOMAIN ns |-> -ns[i]]

\* What shared_ptr keeps alive: the nodes held by root, nodes or file_objects.
Live(h, r, ns, fo) ==
    LET keep == Subtree(h, r) \cup {ns[i] : i \in DOMAIN ns} \cup {fo[k] : k \in DOMAIN fo}
    IN  [i \in keep |-> h[i]]

\* build_tree testing whether the path is a directory before testing whether
\* it exists.
build_tree_KindFirst(f, t, ord, chunk, oldRoot, oldHeap) ==
    IF ~IsDirectory(f[t]) THEN [ret |-> "not-directory"]
    ELSE IF ~Exists(f[t]) THEN [ret |-> "not-found"]
    ELSE LET r == build_node(f, t, ord, chunk,
                             [heap |-> EmptyMap, nodes |-> <<>>, file_objects |-> EmptyMap])
         IN  IF r.threw
             THEN [ret |-> "error", root |-> oldRoot,
                   nodes |-> OrphanNodes(r.st.nodes),
                   file_objects |-> EmptyMap,
                   heap |-> Live(oldHeap, oldRoot, <<>>, EmptyMap) @@ OrphanHeap(r.st.heap)]
             ELSE [ret |-> "ok", root |-> r.node,
                   nodes |-> r.st.nodes,
                   file_objects |-> r.st.file_objects,
                   heap |-> calculateHash(r.st.heap, r.node).heap]

\* MerkleTree::build_tree(t), the directory reporting its entries in order
\* ord: the tree as the call leaves it, and how the call ended.
build_tree(f, t, ord, chunk, oldRoot, oldHeap) ==
    IF ~Exists(f[t]) THEN [ret |-> "not-found"]
    ELSE IF ~IsDirectory(f[t]) THEN [ret |-> "not-directory"]
    ELSE LET r == build_node(f, t, ord, chunk,
                             [heap |-> EmptyMap, nodes |-> <<>>, file_objects |-> EmptyMap])
         IN  IF r.threw
             THEN [ret |-> "error", root |-> oldRoot,
                   nodes |-> OrphanNodes(r.st.nodes),
                   file_objects |-> EmptyMap,
                   heap |-> Live(oldHeap, oldRoot, <<>>, EmptyMap) @@ OrphanHeap(r.st.heap)]
             ELSE [ret |-> "ok", root |-> r.node,
                   nodes |-> r.st.nodes,
                   file_objects |-> r.st.file_objects,
                   heap |-> calculateHash(r.st.heap, r.node).heap]

-----------------------------------------------------------------------------
(* MerkleTree: verification.                                               *)

\* MerkleTree::verifyNodeIntegrity: the heap as the call leaves it (the
\* hashes calculateHash stored) and the value returned.
RECURSIVE verifyNodeIntegrity(_, _)
RECURSIVE VerifyChildren(_, _, _, _)

\* The loop of verifyNodeIntegrity over the children, in the order of the
\* std::map (ascending names); it stops at the first child that fails.
VerifyChildren(h, id, names, i) ==
    IF i > Len(names) THEN [heap |-> h, ok |-> TRUE]
    ELSE LET r == verifyNodeIntegrity(h, h[id].children[names[i]])
         IN  IF ~r.ok THEN r ELSE VerifyChildren(r.heap, id, names, i + 1)

\* verifyNodeIntegrity comparing the stored hash with the hash the rule gives
\* for a node without children, whatever children the node has.
verifyNodeIntegrity_IgnoresChildren(h, id) ==
    IF id = Null THEN [heap |-> h, ok |-> TRUE]
    ELSE LET originalHash == h[id].hash
             r == calculateHash(h, id)
             expected == IF h[id].isFile THEN h[id].contentHash ELSE sha256(h[id].name)
         IN  IF originalHash # expected THEN [heap |-> r.heap, ok |-> FALSE]
             ELSE VerifyChildren(r.heap, id, SortNames(DOMAIN r.heap[id].children), 1)

\* verifyNodeIntegrity computing the hashes without storing them.
verifyNodeIntegrity_NoRepair(h, id) ==
    IF id = Null THEN [heap |-> h, ok |-> TRUE]
    ELSE IF h[id].hash # calculateHash(h, id).hash THEN [heap |-> h, ok |-> FALSE]
    ELSE VerifyChildren(h, id, SortNames(DOMAIN h[id].children), 1)

verifyNodeIntegrity(h, id) ==
    IF id = Null THEN [heap |-> h, ok |-> TRUE]
    ELSE LET originalHash == h[id].hash
             r == calculateHash(h, id)
         IN  IF originalHash # r.hash THEN [heap |-> r.heap, ok |-> FALSE]
             ELSE VerifyChildren(r.heap, id, SortNames(DOMAIN r.heap[id].children), 1)

\* MerkleTree::verifyTreeIntegrity
verifyTreeIntegrity(h, r) ==
    IF r = Null THEN [heap |-> h, ok |-> TRUE] ELSE verifyNodeIntegrity(h, r)

-----------------------------------------------------------------------------
(* The state machine.                                                      *)

\* MTFSConstants::DEFAULT_CHUNK_SIZE
DEFAULT_CHUNK_SIZE == 1024 * 1024

\* The paths build_tree is called with: the top directory and one path
\* directly below it, which may hold a directory, another entry or nothing.
Targets == {<<>>, <<NameA>>}

\* The value a stored hash is overwritten with: the empty string, which is
\* the hash of no node whose hash was computed.
TamperValues == {<<>>}

\* MerkleTree::MerkleTree(), on a file system that holds a top directory.
Init ==
    /\ fs \in {[p \in Paths |-> IF p = <<>> THEN d ELSE NoEntry] : d \in {Dir, DirNoEnum}}
    /\ directory = <<>>
    /\ root = Null
    /\ file_objects = EmptyMap
    /\ nodes = <<>>
    /\ CHUNK_SIZE = DEFAULT_CHUNK_SIZE
    /\ heap = EmptyMap
    /\ last = [op |-> "init", ret |-> "-"]
    /\ tampers = 0
    /\ main_root = Null
    /\ tree_built = FALSE
    /\ pc = "loop"

\* The environment creates entry e at path p, before the program runs.
FsCreate(p, e) ==
    /\ last.op = "init"
    /\ p # <<>>
    /\ fs[p].kind = "none"
    /\ fs[Parent(p)].kind = "dir"
    /\ Cardinality(Present(fs)) < MaxEntries
    /\ Special(e) => Cardinality({q \in Paths : Special(fs[q])}) < MaxSpecial
    /\ fs' = [fs EXCEPT ![p] = e]
    /\ UNCHANGED <<directory, root, file_objects, nodes, CHUNK_SIZE, heap, last, tampers, handler>>

\* The names of the entries below path t, at any depth.
UsedNames(f, t) ==
    {FileName(p) : p \in {q \in Present(f) : Len(q) > Len(t) /\ SubSeq(q, 1, Len(t)) = t}}

\* Two orders that differ only in where they put names that no entry below
\* t has make the same run of build_tree(t): of these orders, the one that
\* puts those names last, ascending, is taken.
DistinguishedOrders(f, t) ==
    LET used == UsedNames(f, t)
    IN  {ord \in Orders :
            \A i \in 1..(Len(ord) - 1) :
                ord[i] \notin used => ord[i + 1] \notin used /\ StrLess(ord[i], ord[i + 1])}

\* A call of build_tree(t), as in case 1 of the command loop, which catches
\* what it throws and, when nothing is thrown, keeps the root returned and
\* sets tree_built.
Build(t, ord) ==
    \E r \in {build_tree(fs, t, ord, CHUNK_SIZE, root, heap)} :
    /\ directory' = t
    /\ last' = [op |-> "build_tree", ret |-> r.ret]
    /\ IF r.ret \in {"not-found", "not-directory"}
       THEN UNCHANGED <<tree, tampers>>
       ELSE /\ root' = r.root
            /\ file_objects' = r.file_objects
            /\ nodes' = r.nodes
            /\ heap' = r.heap
            /\ tampers' = IF r.ret = "ok" THEN 0 ELSE tampers
    /\ IF r.ret = "ok"
       THEN main_root' = r.root /\ tree_built' = TRUE
       ELSE UNCHANGED <<main_root, tree_built>>
    /\ UNCHANGED <<fs, CHUNK_SIZE, pc>>

\* A call of verifyTreeIntegrity.
Verify ==
    \E r \in {verifyTreeIntegrity(heap, root)} :
    /\ last.op # "init"
    /\ heap' = r.heap
    /\ last' = [op |-> "verifyTreeIntegrity", ret |-> IF r.ok THEN "true" ELSE "false"]
    /\ UNCHANGED <<fs, directory, root, file_objects, nodes, CHUNK_SIZE, tampers, handler>>

\* The public field `hash` of a node of the tree is overwritten with a
\* different value.
Tamper(id, v) ==
    /\ root # Null
    /\ id \in Subtree(heap, root)
    /\ tampers < MaxTampers
    /\ v # heap[id].hash
    /\ heap' = [heap EXCEPT ![id].hash = v]
    /\ tampers' = tampers + 1
    /\ last' = [op |-> "tamper", ret |-> "-"]
    /\ UNCHANGED <<fs, directory, root, file_objects, nodes, CHUNK_SIZE, handler>>

Next ==
    \/ \E p \in Paths, e \in Entries : FsCreate(p, e)
    \/ \E t \in Targets : \E ord \in DistinguishedOrders(fs, t) : Build(t, ord)
    \/ Verify
    \/ \E id \in DOMAIN heap, v \in TamperValues : Tamper(id, v)

Spec == Init /\ [][Next]_vars

\* The machine without verification: the file system and build_tree alone.
NextBuild ==
    \/ \E p \in Paths, e \in Entries : FsCreate(p, e)
    \/ \E t \in Targets : \E ord \in DistinguishedOrders(fs, t) : Build(t, ord)

SpecBuild == Init /\ [][NextBuild]_vars

-----------------------------------------------------------------------------
(* MerkleTree: statistics and export.                                      *)

NoStats == [files |-> 0, directories |-> 0, totalSize |-> 0]

RECURSIVE calculateStatsRecursive(_, _, _)
RECURSIVE StatsChildren(_, _, _, _, _)

\* The loop of calculateStatsRecursive over the children of a node.
StatsChildren(h, id, names, i, acc) ==
    IF i > Len(names) THEN acc
    ELSE StatsChildren(h, id, names, i + 1,
                       calculateStatsRecursive(h, h[id].children[names[i]], acc))

\* calculateStatsRecursive counting a directory only when it has children.
calculateStatsRecursive_SkipsEmptyDirs(h, id, acc) ==
    IF id = Null THEN acc
    ELSE IF h[id].isFile
    THEN [acc EXCEPT !.files = @ + 1, !.totalSize = @ + h[id].fileSize]
    ELSE StatsChildren(h, id, SortNames(DOMAIN h[id].children), 1,
                       IF DOMAIN h[id].children = {} THEN acc
                       ELSE [acc EXCEPT !.directories = @ + 1])

\* MerkleTree::calculateStatsRecursive: the three counters as the call
\* leaves them.
calculateStatsRecursive(h, id, acc) ==
    IF id = Null THEN acc
    ELSE IF h[id].isFile
    THEN [acc EXCEPT !.files = @ + 1, !.totalSize = @ + h[id].fileSize]
    ELSE StatsChildren(h, id, SortNames(DOMAIN h[id].children), 1,
                       [acc EXCEPT !.directories = @ + 1])

\* MerkleTree::getTreeStats
getTreeStats(h, r) ==
    IF r = Null THEN NoStats ELSE calculateStatsRecursive(h, r, NoStats)

\* The decimal digits of n, as operator<< writes a size_t.
RECURSIVE Decimal(_)
Decimal(n) ==
    LET digit == <<"0", "1", "2", "3", "4", "5", "6", "7", "8", "9">>[(n % 10) + 1]
    IN  IF n < 10 THEN <<digit>> ELSE Append(Decimal(n \div 10), digit)

\* string(n, ' ')
Spaces(n) == [i \in 1..n |-> " "]

\* A string is a sequence of pieces: the characters of names and digests,
\* and the literals of the source each as one piece.
RECURSIVE nodeToJson(_, _, _)
RECURSIVE JsonChildren(_, _, _, _, _)
RECURSIVE JsonChildren_CreationOrder(_, _, _, _, _)

\* The loop writing the children in the order in which they were created.
JsonChildren_CreationOrder(h, id, childNames, i, depth) ==
    LET created == CreationOrder(h, id, DOMAIN h[id].children)
    IN  IF i > Len(created) THEN <<>>
        ELSE nodeToJson(h, h[id].children[created[i]], depth + 2)
                 \o (IF i < Len(created) THEN <<",">> ELSE <<>>)
                 \o <<"\n">>
                 \o JsonChildren_CreationOrder(h, id, childNames, i + 1, depth)

\* The loop of nodeToJson over childNames, which it has sorted.
JsonChildren(h, id, childNames, i, depth) ==
    IF i > Len(childNames) THEN <<>>
    ELSE nodeToJson(h, h[id].children[childNames[i]], depth + 2)
             \o (IF i < Len(childNames) THEN <<",">> ELSE <<>>)
             \o <<"\n">>
             \o JsonChildren(h, id, childNames, i + 1, depth)

\* MerkleTree::nodeToJson
nodeToJson(h, id, depth) ==
    IF id = Null THEN <<"null">>
    ELSE LET node == h[id]
             indent == Spaces(depth * 2)
             childIndent == Spaces((depth + 1) * 2)
             head == indent \o <<"\"">> \o node.name \o <<"\": {\n">>
                     \o childIndent \o <<"\"type\": \"">>
                     \o <<IF node.isFile THEN "file" ELSE "directory">> \o <<"\",\n">>
                     \o childIndent \o <<"\"hash\": \"">> \o node.hash \o <<"\"">>
             body == IF node.isFile
                     THEN <<",\n">> \o childIndent \o <<"\"size\": ">> \o Decimal(node.fileSize)
                          \o <<",\n">> \o childIndent \o <<"\"chunks\": ">>
                          \o Decimal(Len(node.chunkHashes))
                          \o <<",\n">> \o childIndent \o <<"\"content_hash\": \"">>
                          \o node.contentHash \o <<"\"">>
                     ELSE IF DOMAIN node.children # {}
                     THEN <<",\n">> \o childIndent \o <<"\"children\": {\n">>
                          \o JsonChildren(h, id, SortNames(DOMAIN node.children), 1, depth)
                          \o childIndent \o <<"}">>
                     ELSE <<>>
         IN  head \o body \o <<"\n">> \o indent \o <<"}">>

\* MerkleTree::exportToJson
exportToJson(h, r) ==
    IF r = Null THEN <<"{}">> ELSE <<"{\n">> \o nodeToJson(h, r, 1) \o <<"\n}">>

\* A call of getTreeStats.
Stats ==
    /\ last.op # "init"
    /\ last' = [op |-> "getTreeStats", ret |-> "ok", out |-> getTreeStats(heap, root)]
    /\ UNCHANGED <<fs, directory, tree, CHUNK_SIZE, tampers, handler>>

\* A call of exportToJson.
Export ==
    /\ last.op # "init"
    /\ last' = [op |-> "exportToJson", ret |-> "ok", out |-> exportToJson(heap, root)]
    /\ UNCHANGED <<fs, directory, tree, CHUNK_SIZE, tampers, handler>>

\* The machine of the readers: the file system, build_tree, getTreeStats and
\* exportToJson.
NextRead ==
    \/ \E p \in Paths, e \in Entries : FsCreate(p, e)
    \/ \E t \in Targets : \E ord \in DistinguishedOrders(fs, t) : Build(t, ord)
    \/ Stats
    \/ Export

SpecRead == Init /\ [][NextRead]_vars

-----------------------------------------------------------------------------
(* MerkleNode: depth, sizes and counts; MerkleTree: findNode.              *)

Max(a, b) == IF a > b THEN a ELSE b

RECURSIVE getDepth(_, _)
RECURSIVE DepthChildren(_, _, _, _, _)

\* The loop of getDepth over the children: the heap with the depths the
\* calls cached, and the greatest depth of a child.
DepthChildren(h, id, names, i, maxChildDepth) ==
    IF i > Len(names) THEN [heap |-> h, depth |-> maxChildDepth]
    ELSE LET r == getDepth(h, h[id].children[names[i]])
         IN  DepthChildren(r.heap, id, names, i + 1, Max(maxChildDepth, r.depth))

\* getDepth giving a node without children the depth 1.
getDepth_LeafIsOne(h, id) ==
    IF h[id].cachedDepth # -1 THEN [heap |-> h, depth |-> h[id].cachedDepth]
    ELSE IF DOMAIN h[id].children = {}
    THEN [heap |-> [h EXCEPT ![id].cachedDepth = 1], depth |-> 1]
    ELSE LET r == DepthChildren(h, id, SortNames(DOMAIN h[id].children), 1, 0)
         IN  [heap |-> [r.heap EXCEPT ![id].cachedDepth = r.depth + 1],
              depth |-> r.depth + 1]

\* MerkleNode::getDepth: the value returned, and the heap with the depths
\* cached in the mutable field cachedDepth.
getDepth(h, id) ==
    IF h[id].cachedDepth # -1 THEN [heap |-> h, depth |-> h[id].cachedDepth]
    ELSE IF DOMAIN h[id].children = {}
    THEN [heap |-> [h EXCEPT ![id].cachedDepth = 0], depth |-> 0]
    ELSE LET r == DepthChildren(h, id, SortNames(DOMAIN h[id].children), 1, 0)
         IN  [heap |-> [r.heap EXCEPT ![id].cachedDepth = r.depth + 1],
              depth |-> r.depth + 1]

\* A call of getDepth on a node of the tree, as in case 4 of the command
\* loop on the root.
GetDepth(id) ==
    \E r \in {getDepth(heap, id)} :
    /\ last.op # "init"
    /\ root # Null
    /\ id \in Subtree(heap, root)
    /\ heap' = r.heap
    /\ last' = [op |-> "getDepth", ret |-> "ok", arg |-> id, out |-> r.depth]
    /\ UNCHANGED <<fs, directory, root, file_objects, nodes, CHUNK_SIZE, tampers, handler>>

\* The machine of depths: the file system, build_tree and getDepth.
NextDepth ==
    \/ \E p \in Paths, e \in Entries : FsCreate(p, e)
    \/ \E t \in Targets : \E ord \in DistinguishedOrders(fs, t) : Build(t, ord)
    \/ \E id \in DOMAIN heap : GetDepth(id)

SpecDepth == Init /\ [][NextDepth]_vars

RECURSIVE findNodeRecursive(_, _, _)
RECURSIVE FindInChildren(_, _, _, _, _)

\* The loop of findNodeRecursive over the children, in the order of the
\* std::map: the first result that is not null.
FindInChildren(h, id, names, i, name) ==
    IF i > Len(names) THEN Null
    ELSE LET result == findNodeRecursive(h, h[id].children[names[i]], name)
         IN  IF result # Null THEN result
             ELSE FindInChildren(h, id, names, i + 1, name)

\* findNodeRecursive looking at the children of a node before the node.
findNodeRecursive_ChildrenFirst(h, id, name) ==
    IF id = Null THEN Null
    ELSE LET result == FindInChildren(h, id, SortNames(DOMAIN h[id].children), 1, name)
         IN  IF result # Null THEN result
             ELSE IF h[id].name = name THEN id ELSE Null

\* MerkleTree::findNodeRecursive
findNodeRecursive(h, id, name) ==
    IF id = Null THEN Null
    ELSE IF h[id].name = name THEN id
    ELSE FindInChildren(h, id, SortNames(DOMAIN h[id].children), 1, name)

\* MerkleTree::findNode
findNode(h, r, name) == IF r = Null THEN Null ELSE findNodeRecursive(h, r, name)

RECURSIVE getTotalSize(_, _)
RECURSIVE TotalSizeChildren(_, _, _, _)

\* The loop of getTotalSize over the children.
TotalSizeChildren(h, id, names, i) ==
    IF i > Len(names) THEN 0
    ELSE getTotalSize(h, h[id].children[names[i]]) + TotalSizeChildren(h, id, names, i + 1)

\* MerkleNode::getTotalSize
getTotalSize(h, id) ==
    IF h[id].isFile THEN h[id].fileSize
    ELSE TotalSizeChildren(h, id, SortNames(DOMAIN h[id].children), 1)

RECURSIVE getFileCount(_, _)
RECURSIVE FileCountChildren(_, _, _, _)

\* The loop of getFileCount over the children.
FileCountChildren(h, id, names, i) ==
    IF i > Len(names) THEN 0
    ELSE getFileCount(h, h[id].children[names[i]]) + FileCountChildren(h, id, names, i + 1)

\* getFileCount counting a node without children as a file, whatever its
\* kind.
getFileCount_LeafIsFile(h, id) ==
    IF h[id].isFile \/ DOMAIN h[id].children = {} THEN 1
    ELSE FileCountChildren(h, id, SortNames(DOMAIN h[id].children), 1)

\* MerkleNode::getFileCount
getFileCount(h, id) ==
    IF h[id].isFile THEN 1
    ELSE FileCountChildren(h, id, SortNames(DOMAIN h[id].children), 1)

\* A call of findNode(name).
Find(name) ==
    /\ last.op # "init"
    /\ last' = [op |-> "findNode", ret |-> "ok", arg |-> name,
                out |-> findNode(heap, root, name)]
    /\ UNCHANGED <<fs, directory, tree, CHUNK_SIZE, tampers, handler>>

\* A call of getFileCount on a node of the tree.
FileCount(id) ==
    /\ last.op # "init"
    /\ root # Null
    /\ id \in Subtree(heap, root)
    /\ last' = [op |-> "getFileCount", ret |-> "ok", arg |-> id,
                out |-> getFileCount(heap, id)]
    /\ UNCHANGED <<fs, directory, tree, CHUNK_SIZE, tampers, handler>>

\* A call of getTotalSize on a node of the tree.
TotalSize(id) ==
    /\ last.op # "init"
    /\ root # Null
    /\ id \in Subtree(heap, root)
    /\ last' = [op |-> "getTotalSize", ret |-> "ok", arg |-> id,
                out |-> getTotalSize(heap, id)]
    /\ UNCHANGED <<fs, directory, tree, CHUNK_SIZE, tampers, handler>>

\* The machine of the node queries: the file system, build_tree, findNode,
\* getFileCount and getTotalSize.
NextNode ==
    \/ \E p \in Paths, e \in Entries : FsCreate(p, e)
    \/ \E t \in Targets : \E ord \in DistinguishedOrders(fs, t) : Build(t, ord)
    \/ \E name \in Names : Find(name)
    \/ \E id \in DOMAIN heap : FileCount(id)
    \/ \E id \in DOMAIN heap : TotalSize(id)

SpecNode == Init /\ [][NextNode]_vars

-----------------------------------------------------------------------------
(* Chunk sizes and files of several chunks.                                *)

MIN_CHUNK_SIZE == 1024
MAX_CHUNK_SIZE == 100 * 1024 * 1024

\* The number of whole chunks of the smallest size the longest file holds.
MaxChunks == 2

\* setChunkSize rejecting only the sizes above the maximum.
setChunkSize_NoLowerBound(chunkSize, current) ==
    IF chunkSize > MAX_CHUNK_SIZE
    THEN [ret |-> "invalid-chunk-size", CHUNK_SIZE |-> current]
    ELSE [ret |-> "ok", CHUNK_SIZE |-> chunkSize]

\* MerkleTree::setChunkSize: how the call ended and the chunk size it leaves.
setChunkSize(chunkSize, current) ==
    IF chunkSize < MIN_CHUNK_SIZE \/ chunkSize > MAX_CHUNK_SIZE
    THEN [ret |-> "invalid-chunk-size", CHUNK_SIZE |-> current]
    ELSE [ret |-> "ok", CHUNK_SIZE |-> chunkSize]

\* The sizes setChunkSize is called with: both bounds, their neighbours, the
\* default, and sizes in between.
ChunkArgs ==
    {0, MIN_CHUNK_SIZE - 1, MIN_CHUNK_SIZE, MIN_CHUNK_SIZE + 1, 2 * MIN_CHUNK_SIZE,
     DEFAULT_CHUNK_SIZE, MAX_CHUNK_SIZE, MAX_CHUNK_SIZE + 1}

LegalChunkSizes == {c \in ChunkArgs : MIN_CHUNK_SIZE <= c /\ c <= MAX_CHUNK_SIZE}

\* File sizes around the multiples of the smallest chunk size.
FileSizes ==
    {0, 1} \cup {k * MIN_CHUNK_SIZE + d : k \in 1..MaxChunks, d \in {-1, 0, 1}}

\* A file content of n bytes.
LongContent(n) == [i \in 1..n |-> IF i % 3 = 0 THEN "p" ELSE "q"]

\* The numbers of bytes after which a read fails.
FailPoints == {0, MIN_CHUNK_SIZE, MIN_CHUNK_SIZE + 1}

\* The files of several chunks: files that read to their end, files whose
\* read fails part of the way, and a file that does not open.
LongEntries ==
    {File(LongContent(n)) : n \in FileSizes}
        \cup UNION {{FileReadFails(LongContent(n), m) : m \in {k \in FailPoints : k < n}} :
                       n \in FileSizes}
        \cup {FileNoOpen}

\* The place of the file of several chunks.
LongPath == <<NameA>>

\* The environment writes a file of several chunks, before the program runs.
FsWrite(e) ==
    /\ last.op = "init"
    /\ fs[<<>>].kind = "dir"
    /\ fs[LongPath].kind = "none"
    /\ fs' = [fs EXCEPT ![LongPath] = e]
    /\ UNCHANGED <<directory, root, file_objects, nodes, CHUNK_SIZE, heap, last, tampers, handler>>

\* A call of setChunkSize(chunkSize), as in case 7 of the command loop, which
\* catches what it throws.
SetChunkSize(chunkSize) ==
    \E r \in {setChunkSize(chunkSize, CHUNK_SIZE)} :
    /\ CHUNK_SIZE' = r.CHUNK_SIZE
    /\ last' = [op |-> "setChunkSize", ret |-> r.ret, arg |-> chunkSize]
    /\ UNCHANGED <<fs, directory, tree, tampers, handler>>

\* The machine of chunk sizes: a directory with one file, setChunkSize and
\* build_tree.
NextChunk ==
    \/ \E e \in LongEntries : FsWrite(e)
    \/ \E c \in ChunkArgs : SetChunkSize(c)
    \/ \E ord \in DistinguishedOrders(fs, <<>>) : Build(<<>>, ord)

SpecChunk == Init /\ [][NextChunk]_vars

-----------------------------------------------------------------------------
(* main: the command loop.                                                 *)

\* The notice cases 2 to 6 print, instead of calling the tree, while
\* tree_built is false.
Notice(tag) ==
    /\ last' = [op |-> "notice", ret |-> "-", tag |-> tag]
    /\ UNCHANGED <<fs, directory, tree, CHUNK_SIZE, tampers, handler>>

\* case 1: the directory is read and build_tree is called on it.
Case1(t, ord) ==
    /\ pc = "loop"
    /\ Build(t, ord)

\* case 2: print_tree_details(root), which writes the tree and changes
\* nothing.
Case2 ==
    /\ pc = "loop"
    /\ IF ~tree_built THEN Notice(2)
       ELSE /\ last' = [op |-> "print_tree_details", ret |-> "ok", arg |-> main_root]
            /\ UNCHANGED <<fs, directory, tree, CHUNK_SIZE, tampers, handler>>

\* case 3: print_file_objects(), which writes file_objects and changes
\* nothing.
Case3 ==
    /\ pc = "loop"
    /\ IF ~tree_built THEN Notice(3)
       ELSE /\ last' = [op |-> "print_file_objects", ret |-> "ok", out |-> DOMAIN file_objects]
            /\ UNCHANGED <<fs, directory, tree, CHUNK_SIZE, tampers, handler>>

\* case 4: getTreeStats(), then getDepth() and the hash of main's root.  A
\* null root is dereferenced here: the program stops.
Case4 ==
    /\ pc = "loop"
    /\ IF ~tree_built THEN Notice(4)
       ELSE IF main_root = Null
       THEN /\ pc' = "exit"
            /\ last' = [op |-> "statistics", ret |-> "null-dereference"]
            /\ UNCHANGED <<fs, directory, tree, CHUNK_SIZE, tampers, main_root, tree_built>>
       ELSE \E r \in {getDepth(heap, main_root)} :
            /\ heap' = r.heap
            /\ last' = [op |-> "statistics", ret |-> "ok",
                        out |-> [stats |-> getTreeStats(heap, root), depth |-> r.depth,
                                 hash |-> heap[main_root].hash]]
            /\ UNCHANGED <<fs, directory, root, file_objects, nodes, CHUNK_SIZE, tampers, handler>>

\* case 5 with the test of tree_built left out.
Case5_Ungated ==
    /\ pc = "loop"
    /\ Verify

\* case 5: verifyTreeIntegrity().
Case5 ==
    /\ pc = "loop"
    /\ IF ~tree_built THEN Notice(5) ELSE Verify

\* case 6: exportToJson().
Case6 ==
    /\ pc = "loop"
    /\ IF ~tree_built THEN Notice(6) ELSE Export

\* case 7: setChunkSize on the number read, whatever tree_built is.
Case7(chunkSize) ==
    /\ pc = "loop"
    /\ SetChunkSize(chunkSize)

\* case 8: return 0.
Case8 ==
    /\ pc = "loop"
    /\ pc' = "exit"
    /\ last' = [op |-> "exit", ret |-> "0"]
    /\ UNCHANGED <<fs, directory, tree, CHUNK_SIZE, tampers, main_root, tree_built>>

\* default: any other number.
CaseDefault ==
    /\ pc = "loop"
    /\ last' = [op |-> "invalid-option", ret |-> "-"]
    /\ UNCHANGED <<fs, directory, tree, CHUNK_SIZE, tampers, handler>>

\* The program main: the file system, then the command loop with any tag
\* at each turn.  When the input has ended, `choice`, the directory and the
\* chunk size are whatever they were before: the tags and the arguments
\* below cover these values.
NextMain ==
    \/ \E e \in LongEntries : FsWrite(e)
    \/ \E t \in Targets : \E ord \in DistinguishedOrders(fs, t) : Case1(t, ord)
    \/ Case2
    \/ Case3
    \/ Case4
    \/ Case5
    \/ Case6
    \/ \E c \in ChunkArgs : Case7(c)
    \/ Case8
    \/ CaseDefault

SpecMain == Init /\ [][NextMain]_vars

-----------------------------------------------------------------------------
(* Reading a tree.                                                         *)

\* The state a successful build_tree(directory) has just left.
Built == last.op = "build_tree" /\ last.ret = "ok"

\* The node at path rel below node id, or Null.
RECURSIVE NodeAt(_, _, _)
NodeAt(h, id, rel) ==
    IF rel = <<>> THEN id
    ELSE IF Head(rel) \in DOMAIN h[id].children
         THEN NodeAt(h, h[id].children[Head(rel)], Tail(rel))
         ELSE Null

\* The paths, below the root r of a tree, that hold a node.
TreePaths(h, r) == {rel \in Paths : NodeAt(h, r, rel) # Null}

\* The string a directory node's hash is the digest of, by the rule: over
\* the children by ascending name, "<name>:<hash stored in the child>;".
RECURSIVE RuleString(_, _, _)
RuleString(h, id, names) ==
    IF names = <<>> THEN <<>>
    ELSE Head(names) \o <<":">> \o h[h[id].children[Head(names)]].hash \o <<";">>
             \o RuleString(h, id, Tail(names))

\* Node id obeys the Merkle rule with the hashes stored in it and in its
\* children.
ObeysRule(h, id) ==
    IF h[id].isFile THEN h[id].hash = h[id].contentHash
    ELSE IF DOMAIN h[id].children = {} THEN h[id].hash = sha256(h[id].name)
    ELSE h[id].hash = sha256(RuleString(h, id, Ascending(DOMAIN h[id].children)))

-----------------------------------------------------------------------------
(* The claims.                                                             *)

\* C2: after every successful build_tree every node reachable from root
\* obeys the Merkle rule: a file's hash is its contentHash, a directory with
\* children has the digest of "<name>:<childHash>;" over its children by
\* ascending name, a directory without children has the digest of its name.
C2_MerkleRule ==
    Built => \A id \in Subtree(heap, root) : ObeysRule(heap, id)

\* C2 witness: a built tree whose root holds a directory with a file in it,
\* and which holds a directory without children below the root.
C2_Witness ==
    /\ Built
    /\ \E d \in Subtree(heap, root) \ {root} :
           /\ ~heap[d].isFile
           /\ \E n \in DOMAIN heap[d].children : heap[heap[d].children[n]].isFile
    /\ \E e \in Subtree(heap, root) \ {root} :
           ~heap[e].isFile /\ DOMAIN heap[e].children = {}

\* C3: for a fixed directory content build_tree yields the same root hash
\* whatever the order in which each directory reports its entries, and so
\* does a second build on the same tree object: from the state a successful
\* build has left, a build of the same directory under every order succeeds
\* with the root hash the tree has.
C3_Deterministic ==
    Built =>
        \A ord \in Orders :
            LET r == build_tree(fs, directory, ord, CHUNK_SIZE, root, heap)
            IN  r.ret = "ok" /\ r.heap[r.root].hash = heap[root].hash

\* C3 witness: a built tree whose root got two children in descending order
\* of their names.
C3_Witness ==
    /\ Built
    /\ \E m, n \in DOMAIN heap[root].children :
           StrLess(m, n) /\ heap[root].children[m] > heap[root].children[n]

\* Path p is path t or lies below it.
Under(t, p) == Len(p) >= Len(t) /\ SubSeq(p, 1, Len(t)) = t

\* The build of an entry does not throw: the entry exists, and it opens if
\* it is a file and can be enumerated if it is a directory.
Survives(e) == Exists(e) /\ e.ok

\* The names of the entries of directory q whose build does not throw.
Survivors(f, q) ==
    {n \in Names : Len(q) < MaxDepth /\ f[Append(q, n)].kind # "none" /\ Survives(f[Append(q, n)])}

\* C4 (as claimed): once the stored hash of exactly one node of a freshly
\* built tree has been overwritten with a different value, the next
\* verifyTreeIntegrity returns false.
C4_DetectsAnyCorruption ==
    [][(last.op = "tamper" /\ tampers = 1 /\ last'.op = "verifyTreeIntegrity")
          => last'.ret = "false"]_vars

\* C5: verifyTreeIntegrity on a tree that was built and not modified since
\* returns true, whatever the shape of the tree and however often it is
\* called.
C5_FreshTreeVerifies ==
    (last.op = "verifyTreeIntegrity" /\ root # Null /\ tampers = 0) => last.ret = "true"

\* C5 witness: verifyTreeIntegrity has returned on an unmodified tree that
\* holds an empty directory and an empty file, built from a directory one of
\* whose entries was skipped.
C5_Witness ==
    /\ last.op = "verifyTreeIntegrity" /\ root # Null /\ tampers = 0
    /\ \E d \in Subtree(heap, root) \ {root} :
           ~heap[d].isFile /\ DOMAIN heap[d].children = {}
    /\ \E x \in Subtree(heap, root) : heap[x].isFile /\ heap[x].fileSize = 0
    /\ \E i \in DOMAIN nodes : nodes[i] \notin Subtree(heap, root)

\* C6 (as claimed): a build that fails after the path has been validated
\* leaves root null and contentIndex and allNodes empty.
C6_FailedBuildLeavesEmptyTree ==
    (last.op = "build_tree" /\ last.ret = "error") =>
        root = Null /\ file_objects = EmptyMap /\ nodes = <<>>

\* C7 (as claimed): build_tree of a directory throws whenever a directory
\* in the subtree being built, the one given or one below it, cannot be
\* enumerated.
C7_EnumerationFailureIsFatal ==
    (/\ last.op = "build_tree"
     /\ IsDirectory(fs[directory])
     /\ \E p \in Paths : Under(directory, p) /\ fs[p] = DirNoEnum)
        => last.ret = "error"

\* C8: a build of a directory that can be enumerated succeeds whichever of
\* its entries fail to build; every directory of the tree has as children
\* exactly the entries whose build did not throw, and its hash is the Merkle
\* rule over these children.
C8_PerEntryRecovery ==
    (last.op = "build_tree" /\ IsDirectory(fs[directory]) /\ fs[directory].ok) =>
        /\ last.ret = "ok"
        /\ \A rel \in TreePaths(heap, root) :
               LET id == NodeAt(heap, root, rel)
               IN  ~heap[id].isFile =>
                       /\ DOMAIN heap[id].children = Survivors(fs, directory \o rel)
                       /\ ObeysRule(heap, id)

\* C8 witness: a built tree with a directory in which the build of one entry
\* threw and the build of another did not.
C8_Witness ==
    /\ Built
    /\ \E rel \in TreePaths(heap, root) :
           /\ Len(directory \o rel) < MaxDepth
           /\ \E m, n \in Names :
                  /\ fs[Append(directory \o rel, m)].kind # "none"
                  /\ ~Survives(fs[Append(directory \o rel, m)])
                  /\ n \in DOMAIN heap[NodeAt(heap, root, rel)].children

\* The hash stored in the node at path rel of the tree with root r.
HashAt(h, r, rel) == h[NodeAt(h, r, rel)].hash

\* build_tree of the directory last built, run on the same tree object with
\* file system f in its place.
Rebuild(f) == build_tree(f, directory, NamesAscending, CHUNK_SIZE, root, heap)

\* Nothing lies below path p in file system f.
Childless(f, p) == \A q \in Present(f) : ~(Len(q) > Len(p) /\ Under(p, q))

\* Two trees have, below their roots, the same node names at the same
\* places, hence the same child sets, the same kind for every node and the
\* same content digest for every file.
SameBelowRoot(h1, r1, h2, r2) ==
    /\ TreePaths(h1, r1) = TreePaths(h2, r2)
    /\ \A q \in TreePaths(h1, r1) \ {<<>>} :
           LET a == h1[NodeAt(h1, r1, q)]
               b == h2[NodeAt(h2, r2, q)]
           IN  /\ a.name = b.name
               /\ a.isFile = b.isFile
               /\ a.isFile => a.contentHash = b.contentHash

\* C1 (as claimed): two successfully built trees with equal root hashes have,
\* below the root, the same node names, the same kind for every node, the same
\* child sets and the same file content digests. The second tree is built
\* from the directory of the first with one entry put, replaced or removed.
C1_RootHashCertifiesTree ==
    Built =>
        \A p \in Paths \ {<<>>} : \A e \in Entries \cup {NoEntry} :
            (/\ Len(p) > Len(directory) /\ Under(directory, p)
             /\ fs[Parent(p)].kind = "dir"
             /\ Childless(fs, p)) =>
                LET r2 == Rebuild([fs EXCEPT ![p] = e])
                IN  (r2.ret = "ok" /\ r2.heap[r2.root].hash = heap[root].hash)
                        => SameBelowRoot(heap, root, r2.heap, r2.root)

\* C9: of two directories that differ in the bytes of one file only, the
\* built trees have the same nodes, the hash of a node differs between them
\* if the node is the file or one of its ancestors, the root included, and
\* is the same if it is any other node.
C9_ContentChangePropagates ==
    Built =>
        \A rel \in TreePaths(heap, root) :
            heap[NodeAt(heap, root, rel)].isFile =>
                \A c \in Contents \ {fs[directory \o rel].content} :
                    LET r2 == Rebuild([fs EXCEPT ![directory \o rel] = File(c)])
                    IN  /\ r2.ret = "ok"
                        /\ TreePaths(r2.heap, r2.root) = TreePaths(heap, root)
                        /\ \A q \in TreePaths(heap, root) :
                               (HashAt(r2.heap, r2.root, q) # HashAt(heap, root, q))
                                   <=> Under(q, rel)

\* C9 witness: a built tree with a file two levels below the root and, next
\* to the file's parent directory, a node that is not an ancestor of the
\* file.
C9_Witness ==
    /\ Built
    /\ \E rel, q \in TreePaths(heap, root) :
           /\ Len(rel) = 2 /\ heap[NodeAt(heap, root, rel)].isFile
           /\ Len(q) = 1 /\ ~Under(q, rel)

\* C10 (as claimed): of two directories that differ in the name of one file
\* only, the new name being that of no sibling, the built trees differ in
\* the hash of every ancestor directory of the file up to the root, and
\* agree on the file's contentHash and hash.
C10_RenamePropagates ==
    Built =>
        \A rel \in TreePaths(heap, root) \ {<<>>} : \A n \in Names :
            LET old == directory \o rel
                new == Append(Parent(old), n)
                rel2 == Append(Parent(rel), n)
            IN  (heap[NodeAt(heap, root, rel)].isFile /\ fs[new].kind = "none") =>
                    LET r2 == Rebuild([fs EXCEPT ![old] = NoEntry, ![new] = fs[old]])
                    IN  /\ r2.ret = "ok"
                        /\ NodeAt(r2.heap, r2.root, rel2) # Null
                        /\ r2.heap[NodeAt(r2.heap, r2.root, rel2)].contentHash
                               = heap[NodeAt(heap, root, rel)].contentHash
                        /\ HashAt(r2.heap, r2.root, rel2) = HashAt(heap, root, rel)
                        /\ \A q \in TreePaths(heap, root) :
                               (Len(q) < Len(rel) /\ Under(q, rel)) =>
                                   HashAt(r2.heap, r2.root, q) # HashAt(heap, root, q)

-----------------------------------------------------------------------------
(* Chunking.                                                               *)

\* The bytes under a digest: the digest is taken to be injective, so the
\* bytes are determined by it.
Unhash(d) == SubSeq(d, 2, Len(d) - 1)

\* The chunks under a sequence of chunk digests, joined in order.
RECURSIVE JoinChunks(_)
JoinChunks(hs) == IF hs = <<>> THEN <<>> ELSE Unhash(Head(hs)) \o JoinChunks(Tail(hs))

\* The least number of pieces of b bytes that hold a bytes.
Ceil(a, b) == (a + b - 1) \div b

\* The entry reads to its end: no read of it fails.
ReadsToEnd(e) == e.readable = Len(e.content)

\* The paths, below the root, of the file nodes of the built tree whose file
\* reads to its end.
WholeFiles ==
    {rel \in TreePaths(heap, root) :
        heap[NodeAt(heap, root, rel)].isFile /\ ReadsToEnd(fs[directory \o rel])}

\* C11: for a file that reads to its end, hash_file_content gives, under
\* every legal chunk size, the content hash and the size that the build
\* stored, the content hash being the digest of the whole content; the
\* chunks under the chunk hashes, joined in order, are the file content.
C11_ChunkingIndependence ==
    Built =>
        \A rel \in WholeFiles :
            LET e == fs[directory \o rel]
                node == heap[NodeAt(heap, root, rel)]
            IN  /\ node.contentHash = sha256(e.content)
                /\ node.fileSize = Len(e.content)
                /\ JoinChunks(node.chunkHashes) = e.content
                /\ \A c \in LegalChunkSizes :
                       LET r == hash_file_content(e, c)
                       IN  /\ r.contentHash = node.contentHash
                           /\ r.fileSize = node.fileSize
                           /\ JoinChunks(r.chunkHashes) = e.content

\* C11 witness: a built tree with a file of more than one chunk under the
\* chunk size in force, which is not the default one.
C11_Witness ==
    /\ Built
    /\ CHUNK_SIZE # DEFAULT_CHUNK_SIZE
    /\ \E rel \in WholeFiles : Len(heap[NodeAt(heap, root, rel)].chunkHashes) > 1

\* C12: for a file that reads to its end, the number of chunk hashes is the
\* size divided by the chunk size in force, rounded up; chunk i is the digest
\* of the bytes from i times the chunk size up to the next multiple or the
\* end of the file; an empty file has no chunk hash and the digest of the
\* empty input as its content hash.
C12_ChunkCount ==
    Built =>
        \A rel \in WholeFiles :
            LET content == fs[directory \o rel].content
                node == heap[NodeAt(heap, root, rel)]
                size == node.fileSize
            IN  /\ Len(node.chunkHashes) = Ceil(size, CHUNK_SIZE)
                /\ \A i \in 1..Len(node.chunkHashes) :
                       node.chunkHashes[i]
                           = sha256(SubSeq(content, (i - 1) * CHUNK_SIZE + 1,
                                           Min(i * CHUNK_SIZE, size)))
                /\ size = 0 => node.chunkHashes = <<>> /\ node.contentHash = sha256(<<>>)

\* C12 witness: built trees exist with a file whose size is twice the chunk
\* size in force; this one has two chunk hashes.
C12_Witness ==
    /\ Built
    /\ \E rel \in WholeFiles :
           /\ heap[NodeAt(heap, root, rel)].fileSize = 2 * CHUNK_SIZE
           /\ Len(heap[NodeAt(heap, root, rel)].chunkHashes) = 2

\* C13: the chunk size is within [1024, 104857600] in every state; a call
\* setChunkSize(c) with c in this range succeeds and makes c the chunk size,
\* and with any other c fails with an invalid-chunk-size error and leaves the
\* chunk size as it was.
C13_ChunkSizeBounds ==
    [][/\ MIN_CHUNK_SIZE <= CHUNK_SIZE /\ CHUNK_SIZE <= MAX_CHUNK_SIZE
       /\ MIN_CHUNK_SIZE <= CHUNK_SIZE' /\ CHUNK_SIZE' <= MAX_CHUNK_SIZE
       /\ last'.op = "setChunkSize" =>
              IF 1024 <= last'.arg /\ last'.arg <= 104857600
              THEN last'.ret = "ok" /\ CHUNK_SIZE' = last'.arg
              ELSE last'.ret = "invalid-chunk-size" /\ CHUNK_SIZE' = CHUNK_SIZE]_vars

\* C13 witness: setChunkSize(1023) has failed after setChunkSize(104857600)
\* succeeded and a tree was built.
C13_Witness ==
    /\ last.op = "setChunkSize" /\ last.arg = 1023 /\ last.ret = "invalid-chunk-size"
    /\ CHUNK_SIZE = 104857600
    /\ root # Null

\* C20 (as claimed): a file that does not open, or whose read fails before
\* its end, leaves no content hash, size or chunk hashes on a node; and on
\* every node that holds them the size is the number of bytes that went into
\* the content hash.
C20_NoPartialResult ==
    last.op = "build_tree" =>
        /\ \A rel \in (IF root = Null THEN {} ELSE TreePaths(heap, root)) :
               heap[NodeAt(heap, root, rel)].isFile =>
                   /\ fs[directory \o rel].ok
                   /\ ReadsToEnd(fs[directory \o rel])
                   /\ heap[NodeAt(heap, root, rel)].fileSize
                          = Len(Unhash(heap[NodeAt(heap, root, rel)].contentHash))
        /\ \A i \in DOMAIN nodes :
               (heap[nodes[i]].isFile /\ nodes[i] \notin Subtree(heap, root)) =>
                   /\ heap[nodes[i]].contentHash = <<>>
                   /\ heap[nodes[i]].chunkHashes = <<>>
                   /\ heap[nodes[i]].fileSize = 0

-----------------------------------------------------------------------------
(* The content index.                                                      *)

\* The files below t that build_tree(t) hashes: the regular files that open,
\* in directories that the build enumerates.
HashedFiles(f, t) ==
    {p \in Paths :
        /\ Len(p) > Len(t) /\ Under(t, p)
        /\ IsRegularFile(f[p]) /\ f[p].ok
        /\ \A k \in Len(t)..(Len(p) - 1) : f[SubSeq(p, 1, k)] = Dir}

\* The node of the built tree for path p of the file system.
NodeOf(p) == NodeAt(heap, root, SubSeq(p, Len(directory) + 1, Len(p)))

\* The content digest of the file at path p.
DigestOf(p) == sha256(SubSeq(fs[p].content, 1, fs[p].readable))

\* C14: after a successful build the content index has one entry for each
\* content digest of a hashed file and no other entry; every hashed file has
\* its node in the tree; the entry of a digest is the node, among those of
\* the files with this digest, that was processed last.
C14_DedupIndex ==
    Built =>
        LET hashed == HashedFiles(fs, directory)
        IN  /\ DOMAIN file_objects = {DigestOf(p) : p \in hashed}
            /\ \A p \in hashed :
                   /\ NodeOf(p) # Null
                   /\ heap[NodeOf(p)].isFile
                   /\ heap[NodeOf(p)].contentHash = DigestOf(p)
            /\ \A p \in hashed :
                   /\ DigestOf(p) \in DOMAIN file_objects
                   /\ file_objects[DigestOf(p)] >= NodeOf(p)
                   /\ \E q \in hashed :
                          DigestOf(q) = DigestOf(p) /\ file_objects[DigestOf(p)] = NodeOf(q)

\* C14 witness: a built tree with two files of the same content in different
\* directories, the one processed first not being the one in the index.
C14_Witness ==
    /\ Built
    /\ \E p, q \in HashedFiles(fs, directory) :
           /\ Parent(p) # Parent(q)
           /\ DigestOf(p) = DigestOf(q)
           /\ NodeOf(p) < NodeOf(q)
           /\ file_objects[DigestOf(p)] = NodeOf(q)

-----------------------------------------------------------------------------
(* Statistics and export.                                                  *)

\* The sum of fileSize over the nodes of set S.
RECURSIVE SumSizes(_, _)
SumSizes(h, S) ==
    IF S = {} THEN 0
    ELSE LET x == CHOOSE y \in S : TRUE IN h[x].fileSize + SumSizes(h, S \ {x})

\* C15: getTreeStats on a built tree returns the number of file nodes
\* reachable from root, the number of other nodes reachable from root, empty
\* directories and the root among them, and the sum of fileSize over the
\* reachable file nodes; the two counts add up to the number of reachable
\* nodes.
C15_TreeStats ==
    (last.op = "getTreeStats" /\ root # Null) =>
        LET reach == Subtree(heap, root)
            fileNodes == {i \in reach : heap[i].isFile}
        IN  /\ last.out.files = Cardinality(fileNodes)
            /\ last.out.directories = Cardinality(reach \ fileNodes)
            /\ last.out.totalSize = SumSizes(heap, fileNodes)
            /\ last.out.files + last.out.directories = Cardinality(reach)

\* C15 witness: getTreeStats has returned on a tree with an empty directory
\* below the root and a file that is not empty.
C15_Witness ==
    /\ last.op = "getTreeStats" /\ root # Null
    /\ \E d \in Subtree(heap, root) \ {root} : ~heap[d].isFile /\ DOMAIN heap[d].children = {}
    /\ \E x \in Subtree(heap, root) : heap[x].isFile /\ heap[x].fileSize > 0

\* The text the export is to hold for node id at the given depth: an object
\* keyed by the name, with type and hash, for a file size, chunks and
\* content_hash, for a directory with children the children object, holding
\* the texts of the children by ascending name.
RECURSIVE JsonOf(_, _, _)
RECURSIVE JsonOfAll(_, _, _, _)
JsonOfAll(h, id, names, depth) ==
    IF names = <<>> THEN <<>>
    ELSE JsonOf(h, h[id].children[Head(names)], depth)
             \o (IF Len(names) > 1 THEN <<",", "\n">> ELSE <<"\n">>)
             \o JsonOfAll(h, id, Tail(names), depth)

JsonOf(h, id, depth) ==
    LET pad == Spaces(2 * depth)
        pad1 == Spaces(2 * depth + 2)
        key == pad \o <<"\"">> \o h[id].name \o <<"\": {\n">>
        type == pad1 \o <<"\"type\": \"", IF h[id].isFile THEN "file" ELSE "directory", "\",\n">>
        hash == pad1 \o <<"\"hash\": \"">> \o h[id].hash \o <<"\"">>
        file == <<",\n">> \o pad1 \o <<"\"size\": ">> \o Decimal(h[id].fileSize)
                \o <<",\n">> \o pad1 \o <<"\"chunks\": ">> \o Decimal(Len(h[id].chunkHashes))
                \o <<",\n">> \o pad1 \o <<"\"content_hash\": \"">> \o h[id].contentHash \o <<"\"">>
        children == <<",\n">> \o pad1 \o <<"\"children\": {\n">>
                    \o JsonOfAll(h, id, Ascending(DOMAIN h[id].children), depth + 2)
                    \o pad1 \o <<"}">>
    IN  key \o type \o hash
            \o (IF h[id].isFile THEN file
                ELSE IF Cardinality(DOMAIN h[id].children) >= 1 THEN children
                ELSE <<>>)
            \o <<"\n">> \o pad \o <<"}">>

\* C16: exportToJson returns {} for a null root, and otherwise the text of
\* the root, in braces: every reachable node as an object keyed by its name
\* with type and hash, files with size, chunks and content_hash, directories
\* with a children object exactly when they have a child, the children by
\* ascending name.
C16_ExportJson ==
    last.op = "exportToJson" =>
        IF root = Null THEN last.out = <<"{}">>
        ELSE last.out = <<"{\n">> \o JsonOf(heap, root, 1) \o <<"\n}">>

\* C16 witness: exportToJson has returned on a tree whose root has two
\* children, the one created later having the lesser name, and which holds
\* an empty directory and a file.
C16_Witness ==
    /\ last.op = "exportToJson" /\ root # Null
    /\ \E m, n \in DOMAIN heap[root].children :
           StrLess(m, n) /\ heap[root].children[m] > heap[root].children[n]
    /\ \E d \in Subtree(heap, root) \ {root} : ~heap[d].isFile /\ DOMAIN heap[d].children = {}
    /\ \E x \in Subtree(heap, root) : heap[x].isFile

-----------------------------------------------------------------------------
(* Failing builds, and what the readers write.                             *)

\* C17: build_tree of a path that does not exist fails with a not-found
\* error, and of a path that exists and is not a directory with a
\* not-a-directory error; either way root, the content index, the node list,
\* the nodes and the chunk size are what they were before the call.
C17_InvalidPathTouchesNothing ==
    [][last'.op = "build_tree" =>
          /\ fs[directory'].kind \in {"none", "dangling"} =>
                 /\ last'.ret = "not-found"
                 /\ UNCHANGED <<root, file_objects, nodes, heap, CHUNK_SIZE>>
          /\ fs[directory'].kind \in {"file", "other"} =>
                 /\ last'.ret = "not-directory"
                 /\ UNCHANGED <<root, file_objects, nodes, heap, CHUNK_SIZE>>]_vars

\* C17 witness: build_tree has failed with a not-found error on a tree
\* object that holds a tree built before.
C17_Witness ==
    /\ last.op = "build_tree" /\ last.ret = "not-found"
    /\ root # Null /\ nodes # <<>> /\ file_objects # EmptyMap

\* C18 (as claimed): a call of verifyTreeIntegrity, getTreeStats or
\* exportToJson leaves name, hash, contentHash, chunkHashes, fileSize and
\* children of every node, and root, the content index and the node list,
\* as they were.
C18_ReadersWriteNothing ==
    [][last'.op \in {"verifyTreeIntegrity", "getTreeStats", "exportToJson"} =>
          /\ UNCHANGED <<root, file_objects, nodes>>
          /\ DOMAIN heap' = DOMAIN heap
          /\ \A i \in DOMAIN heap :
                 /\ heap'[i].name = heap[i].name
                 /\ heap'[i].hash = heap[i].hash
                 /\ heap'[i].contentHash = heap[i].contentHash
                 /\ heap'[i].chunkHashes = heap[i].chunkHashes
                 /\ heap'[i].fileSize = heap[i].fileSize
                 /\ heap'[i].children = heap[i].children]_vars

\* C19: after a call of verifyTreeIntegrity, whatever it returned, every
\* node reachable from root obeys the Merkle rule with the hashes stored, and
\* a call of verifyTreeIntegrity made next returns true.
C19_VerifyRepairs ==
    (last.op = "verifyTreeIntegrity" /\ root # Null) =>
        /\ \A id \in Subtree(heap, root) : ObeysRule(heap, id)
        /\ verifyTreeIntegrity(heap, root).ok

\* C19 witness: verifyTreeIntegrity has returned false on a tree one of whose
\* stored hashes had been overwritten.
C19_Witness ==
    /\ last.op = "verifyTreeIntegrity" /\ last.ret = "false"
    /\ root # Null /\ tampers = 1

-----------------------------------------------------------------------------
(* setChunkSize and the builds after it.                                   *)

\* C21: a call of setChunkSize leaves root, the content index, the node list
\* and every node as they were, and when it fails the chunk size too; when
\* it succeeds with c, c is the chunk size, and a build_tree that succeeds
\* later leaves the chunk size alone and cuts every file that reads to its
\* end into windows of as many bytes as the chunk size.
C21_ChunkSizeTakesEffectLater ==
    [][/\ last'.op = "setChunkSize" =>
              /\ UNCHANGED <<root, file_objects, nodes, heap>>
              /\ last'.ret = "ok" => CHUNK_SIZE' = last'.arg
              /\ last'.ret # "ok" => CHUNK_SIZE' = CHUNK_SIZE
       /\ (last'.op = "build_tree" /\ last'.ret = "ok") =>
              /\ CHUNK_SIZE' = CHUNK_SIZE
              /\ \A rel \in TreePaths(heap', root') :
                     LET node == heap'[NodeAt(heap', root', rel)]
                         e == fs[directory' \o rel]
                     IN  (node.isFile /\ ReadsToEnd(e)) =>
                             /\ Len(node.chunkHashes) = Ceil(Len(e.content), CHUNK_SIZE)
                             /\ \A i \in 1..Len(node.chunkHashes) :
                                    Len(Unhash(node.chunkHashes[i]))
                                        = Min(CHUNK_SIZE, Len(e.content) - (i - 1) * CHUNK_SIZE)]_vars

\* C21 witness: setChunkSize has succeeded on a tree object whose tree was
\* built under another chunk size: the tree holds a file with another number
\* of chunk hashes than the new chunk size gives.
C21_Witness ==
    /\ last.op = "setChunkSize" /\ last.ret = "ok"
    /\ root # Null
    /\ \E i \in Subtree(heap, root) :
           heap[i].isFile /\ Len(heap[i].chunkHashes) # Ceil(heap[i].fileSize, CHUNK_SIZE)

-----------------------------------------------------------------------------
(* Depth.                                                                  *)

\* The height of the subtree of node id: 0 without children, otherwise one
\* more than the greatest height of a child.
RECURSIVE Height(_, _)
Height(h, id) ==
    LET kids == {h[id].children[n] : n \in DOMAIN h[id].children}
    IN  IF kids = {} THEN 0
        ELSE 1 + (CHOOSE m \in {Height(h, k) : k \in kids} :
                      \A k \in kids : Height(h, k) <= m)

-----------------------------------------------------------------------------
(* findNode.                                                               *)

\* The nodes of the subtree of node id in depth-first pre-order: the node,
\* then the subtrees of its children by ascending name.
RECURSIVE PreOrder(_, _)
RECURSIVE PreOrderAll(_, _, _)
PreOrderAll(h, id, names) ==
    IF names = <<>> THEN <<>>
    ELSE PreOrder(h, h[id].children[Head(names)]) \o PreOrderAll(h, id, Tail(names))

PreOrder(h, id) == <<id>> \o PreOrderAll(h, id, Ascending(DOMAIN h[id].children))

\* The first node with the given name in the pre-order of the tree, or Null.
FirstNamed(h, r, name) ==
    IF r = Null THEN Null
    ELSE LET order == PreOrder(h, r)
             hits == {i \in 1..Len(order) : h[order[i]].name = name}
         IN  IF hits = {} THEN Null
             ELSE order[CHOOSE i \in hits : \A j \in hits : i <= j]

\* C23: findNode(name) returns null when root is null or no node reachable
\* from root has the name, and otherwise the first node with the name in
\* depth-first pre-order, children by ascending name; it changes nothing.
C23_FindNode ==
    [][last'.op = "findNode" =>
          /\ last'.out = FirstNamed(heap, root, last'.arg)
          /\ (last'.out = Null) <=>
                 (root = Null \/ \A i \in Subtree(heap, root) : heap[i].name # last'.arg)
          /\ UNCHANGED <<root, file_objects, nodes, heap, CHUNK_SIZE>>]_vars

\* C23 witness: findNode has returned the root, whose name a node below the
\* root has too.
C23_Witness ==
    /\ last.op = "findNode" /\ root # Null /\ last.out = root
    /\ \E i \in Subtree(heap, root) \ {root} : heap[i].name = last.arg

-----------------------------------------------------------------------------
(* The aggregates of a node and of the tree.                               *)

\* The nodes the children map of node id holds.
ChildIds(h, id) == {h[id].children[n] : n \in DOMAIN h[id].children}

\* The sum of getFileCount over the nodes of set S.
RECURSIVE SumFileCounts(_, _)
SumFileCounts(h, S) ==
    IF S = {} THEN 0
    ELSE LET x == CHOOSE y \in S : TRUE IN getFileCount(h, x) + SumFileCounts(h, S \ {x})

\* The sum of getTotalSize over the nodes of set S.
RECURSIVE SumTotalSizes(_, _)
SumTotalSizes(h, S) ==
    IF S = {} THEN 0
    ELSE LET x == CHOOSE y \in S : TRUE IN getTotalSize(h, x) + SumTotalSizes(h, S \ {x})

\* C28: on every built tree the file count and the total size of
\* getTreeStats are those of getFileCount and getTotalSize on the root; on
\* every node the two methods return the number and the sizes of the file
\* nodes below it, and on a directory node the sums of the same values over
\* its children.
C28_AggregatesAgree ==
    /\ root # Null =>
           /\ getTreeStats(heap, root).files = getFileCount(heap, root)
           /\ getTreeStats(heap, root).totalSize = getTotalSize(heap, root)
           /\ \A i \in Subtree(heap, root) : ~heap[i].isFile =>
                  /\ getFileCount(heap, i) = SumFileCounts(heap, ChildIds(heap, i))
                  /\ getTotalSize(heap, i) = SumTotalSizes(heap, ChildIds(heap, i))
    /\ last.op = "getFileCount" =>
           last.out = Cardinality({i \in Subtree(heap, last.arg) : heap[i].isFile})
    /\ last.op = "getTotalSize" =>
           last.out = SumSizes(heap, {i \in Subtree(heap, last.arg) : heap[i].isFile})

\* C28 witness: getTotalSize has returned on the root of a tree with a file
\* that is not empty two levels below the root and a node without children
\* that is not a file.
C28_Witness ==
    /\ last.op = "getTotalSize" /\ last.arg = root /\ last.out > 0
    /\ \E d \in ChildIds(heap, root) : \E x \in ChildIds(heap, d) :
           heap[x].isFile /\ heap[x].fileSize > 0
    /\ \E d \in Subtree(heap, root) \ {root} : ~heap[d].isFile /\ DOMAIN heap[d].children = {}

-----------------------------------------------------------------------------
(* The kinds of nodes and the registries.                                  *)

\* C24 (as claimed): a file node has no children; a node that is not a file
\* node has an empty contentHash, no chunk hashes and fileSize 0; addChild on
\* a file node, or with a null child, throws and leaves the node as it was;
\* and every node of a built tree that is not a file node stands for a
\* directory of the file system.
C24_NodeKinds ==
    /\ \A i \in DOMAIN heap :
           /\ heap[i].isFile => DOMAIN heap[i].children = {}
           /\ ~heap[i].isFile =>
                  heap[i].contentHash = <<>> /\ heap[i].chunkHashes = <<>> /\ heap[i].fileSize = 0
           /\ \A c \in DOMAIN heap \cup {Null} :
                  (heap[i].isFile \/ c = Null) =>
                      addChildOrThrow(heap, i, c) = [threw |-> TRUE, heap |-> heap]
    /\ Built => \A rel \in TreePaths(heap, root) :
           ~heap[NodeAt(heap, root, rel)].isFile => IsDirectory(fs[directory \o rel])

\* C25 (as claimed): after a successful build_tree, `nodes` holds exactly the
\* nodes reachable from root, each once and each with a hash, and every entry
\* of file_objects maps a digest to a file node reachable from root with that
\* contentHash; no node of an earlier build or of a skipped entry is left in
\* either.
C25_RegistriesMatchTree ==
    Built =>
        /\ {nodes[i] : i \in DOMAIN nodes} = Subtree(heap, root)
        /\ Len(nodes) = Cardinality(Subtree(heap, root))
        /\ \A i \in DOMAIN nodes : heap[nodes[i]].hash # <<>>
        /\ \A d \in DOMAIN file_objects :
               /\ file_objects[d] \in Subtree(heap, root)
               /\ heap[file_objects[d]].isFile
               /\ heap[file_objects[d]].contentHash = d

-----------------------------------------------------------------------------
(* What verifyTreeIntegrity reports.                                       *)

\* C26 (as claimed): verifyTreeIntegrity returns false exactly when root is
\* not null and, at the call, some node reachable from root has a stored hash
\* that differs from the hash recomputed from its children and content; so
\* when it returns true every stored hash obeyed the Merkle rule at the call.
C26_FalseExactlyOnMismatch ==
    [][last'.op = "verifyTreeIntegrity" =>
          (last'.ret = "false" <=>
               (root # Null /\ \E id \in Subtree(heap, root) : ~ObeysRule(heap, id)))]_vars

-----------------------------------------------------------------------------
(* The command loop.                                                       *)

\* What cases 2 to 6 leave in `last` when they get to the tree.
GatedOps ==
    {"print_tree_details", "print_file_objects", "statistics", "verifyTreeIntegrity",
     "exportToJson"}

\* C27: in the command loop, a step of tags 2 to 6 gets to the tree only
\* when tree_built holds, and otherwise prints the notice and changes
\* nothing; tree_built becomes true only in a build that succeeds and never
\* becomes false again; whenever tree_built holds, main's root is the root of
\* the tree and is not null; tag 7 can be taken in every state of the loop;
\* tag 8 ends the loop, and nothing happens after it.
C27_SessionGating ==
    /\ [][/\ last'.op \in GatedOps => tree_built
          /\ last'.op = "notice" =>
                 /\ ~tree_built /\ last'.tag \in 2..6
                 /\ UNCHANGED <<tree, CHUNK_SIZE, handler>>
          /\ tree_built => tree_built'
          /\ (~tree_built /\ tree_built') => (last'.op = "build_tree" /\ last'.ret = "ok")
          /\ (last'.op = "build_tree" /\ last'.ret = "ok") => tree_built'
          /\ tree_built' => (main_root' = root' /\ root' # Null)
          /\ last'.op = "exit" => pc' = "exit"
          /\ pc = "loop"]_vars
    /\ [](pc = "loop" => \A c \in ChunkArgs : ENABLED Case7(c))

\* C27 witness: the loop has ended after a build of the top directory that
\* succeeded and a later build of another path that failed.
C27_Witness ==
    /\ pc = "exit" /\ tree_built /\ main_root = root
    /\ directory # <<>> /\ heap[root].name = RootName

====
